---- MODULE Spec2Model ----
(***************************************************************************)
(* The stream-discovery resolver of liblsl (src/src/resolver_impl.cpp):    *)
(* the wave scheduler, its three timers, the handler queue of the I/O      *)
(* context, the resolve attempts, the result store, and the threads that   *)
(* call resolve_oneshot, resolve_continuous, results, cancel and the       *)
(* destructor.                                                             *)
(*                                                                         *)
(* Time.  Time stamps are kept relative to a sliding origin: lsl_clock()   *)
(* reads ClockWindow in every state, and a tick of the clock (Tick) moves  *)
(* every stored time stamp one step into the past.  A stamp is not moved   *)
(* further once it is older than every value the code compares it with: a  *)
(* last_seen older than lsl_clock - forget_after_, a deadline that is due, *)
(* a timer wait that is overdue by the whole window.                       *)
(* All comparisons of the code (last_seen < expired_before, lsl_clock() >= *)
(* wait_until_, expiry <= now) are kept as written.                        *)
(***************************************************************************)
EXTENDS Integers, Sequences, FiniteSets, TLC

(* ------------------------------ bounds --------------------------------- *)
\* number of distinct streams that can answer
NumKeys == 2
\* the reading of the clock
ClockWindow == 3
\* ticks by which the thread that runs the I/O context may be late in
\* dispatching a due timer
MaxLate == 1
\* largest max_results argument of results()
MaxResults == 2
\* largest minimum argument of resolve_oneshot
MaxMinimum == 2
\* largest finite timeout argument of resolve_oneshot
MaxTimeout == 1
\* largest minimum_time argument of resolve_oneshot
MaxMinTime == 2
\* largest finite forget_after argument of resolve_continuous
MaxForget == 2
\* number of resolve_oneshot / resolve_continuous calls on one resolver
MaxCalls == 1
\* number of cancel() calls made by the second thread
MaxCancels == 1
\* calls of cancel() by the second thread where cancel() is called repeatedly
MaxRepeatedCancels == 2
\* largest port_range of the configuration
MaxPortRange == 3
\* number of known peers of the configuration
MaxPeers == 2
\* resolve calls on one resolver where the resolver is used again
MaxReuseCalls == 2

(* ------------------------ program constants ---------------------------- *)
FOREVER == 32000000
\* ports are uint16_t
PortModulus == 65536
\* a base port far from both ends of the port numbers
MidBasePort == 16572
multicast_min_rtt == 1
multicast_max_rtt == 2
unicast_min_rtt == 1
unicast_max_rtt == 2
continuous_resolve_interval == 1

Keys == 1..NumKeys
Threads == {"main", "worker", "other"}
TimerNames == {"wave", "unicast", "timeout"}
Queries == {"session_id='X'", "not a valid predicate"}

VARIABLES
    cancelled_,       \* flag set by cancel()
    expired_,         \* flag set by cancel_ongoing_resolve()
    query_,           \* the query of the current resolve
    minimum_,         \* minimum number of results (0: continuous)
    wait_until_,      \* time stamp before which a one-shot resolve does not stop
    forget_after_,    \* age after which results() forgets a stream
    fast_mode_,       \* no idle time between waves
    results_,         \* the result store: stream key -> last_seen
    results_mut_,     \* holder of the result-store mutex, or "free"
    ucast_endpoints_, \* number of unicast endpoints built by the constructor
    udp_protocols_,   \* the allowed protocol stacks, in the constructor's order
    background_io_,   \* the background worker thread exists
    io_stopped,       \* io_context::stopped()
    queue,            \* handlers of the I/O context that are ready to run
    timers,           \* wave_timer_, unicast_timer_, resolve_timeout_expired_
    attempts,         \* outstanding resolve attempts
    pc,               \* position of each thread
    args,             \* arguments of the call the main thread is in
    ret,              \* what the last call of the main thread returned
    output,           \* what the results() call in progress returns
    max_results_arg,  \* max_results of the results() call in progress
    calls,            \* resolve calls made so far
    cancels,          \* cancel() calls made so far
    returned,         \* history: streams an earlier results() call has returned
    last_obs,         \* history: stamp of the last reply of each stream (-1: none)
    store_before,     \* history: the store as the results() call in progress found it
    timeout_at,       \* history: deadline of the timeout of the one-shot call (FOREVER: none)
    early_reply,      \* history: a reply met the stop condition while unicast_timer_ was pending
    burst_log,        \* history: what the last burst logged
    burst_failed,     \* history: the stacks on which the last burst could not start an attempt
    base_port_,       \* api_config: first port of the port range
    port_range_,      \* api_config: number of ports of the port range
    known_peers_,     \* api_config: per known peer, whether it resolves and to which addresses
    ucast_list,       \* the unicast endpoints the constructor has built so far
    ctor_k,           \* the known peer the constructor handles next (0: constructed)
    called_cancelled  \* history: cancelled was set when the last resolve call began

resolverVars == <<cancelled_, expired_, query_, minimum_, wait_until_, forget_after_,
                  fast_mode_, ucast_endpoints_, udp_protocols_, background_io_>>
ioVars == <<io_stopped, queue, timers, attempts>>
storeVars == <<results_, results_mut_>>
threadVars == <<pc, args, ret, output, max_results_arg, calls, cancels>>
storeHist == <<returned, last_obs, store_before>>
callHist == <<timeout_at, early_reply>>
burstHist == <<burst_log, burst_failed>>
ctorVars == <<base_port_, port_range_, known_peers_, ucast_list, ctor_k>>
auxHist == <<burstHist, ctorVars, called_cancelled>>
histVars == <<storeHist, callHist, auxHist>>
vars == <<resolverVars, ioVars, storeVars, threadVars, histVars>>

(* ------------------------------ clock ---------------------------------- *)
lsl_clock == ClockWindow

\* a stamp one tick later: one step further into the past, down to floor
Older(t, floor) == IF t > floor THEN t - 1 ELSE t
\* a deadline one tick later; a deadline that is due stays due
OlderDeadline(t) == IF t > lsl_clock THEN t - 1 ELSE t

(* --------------------------- result store ------------------------------ *)
\* the keys of a store in iteration order (ascending, as an ordered map)
RECURSIVE KeysInOrder(_)
KeysInOrder(S) ==
    IF S = {} THEN <<>>
    ELSE LET k == CHOOSE x \in S : \A y \in S : x <= y
         IN <<k>> \o KeysInOrder(S \ {k})

SeqToSet(s) == {s[i] : i \in 1..Len(s)}

\* insert-or-refresh of one stream by a resolve attempt
upsert(store, k, now) ==
    IF k \in DOMAIN store
    THEN [store EXCEPT ![k] = now]
    ELSE [x \in DOMAIN store \cup {k} |-> IF x = k THEN now ELSE store[x]]

\* one turn of the loop of results() on entry k: erase it when stale, else
\* copy it to the output while the output holds fewer than max_results
ResultsVisitStopsWhenFull(acc, k, max_results, expired_before) ==
    IF Len(acc.out) >= max_results THEN acc
    ELSE IF acc.store[k] < expired_before
    THEN [store |-> [x \in DOMAIN acc.store \ {k} |-> acc.store[x]], out |-> acc.out]
    ELSE [store |-> acc.store, out |-> Append(acc.out, k)]
ResultsVisitErasesAtThreshold(acc, k, max_results, expired_before) ==
    IF acc.store[k] <= expired_before
    THEN [store |-> [x \in DOMAIN acc.store \ {k} |-> acc.store[x]], out |-> acc.out]
    ELSE [store |-> acc.store,
          out |-> IF Len(acc.out) < max_results THEN Append(acc.out, k) ELSE acc.out]
ResultsVisitOffByOne(acc, k, max_results, expired_before) ==
    IF acc.store[k] < expired_before
    THEN [store |-> [x \in DOMAIN acc.store \ {k} |-> acc.store[x]], out |-> acc.out]
    ELSE [store |-> acc.store,
          out |-> IF Len(acc.out) <= max_results THEN Append(acc.out, k) ELSE acc.out]
ResultsVisit(acc, k, max_results, expired_before) ==
    IF acc.store[k] < expired_before
    THEN [store |-> [x \in DOMAIN acc.store \ {k} |-> acc.store[x]], out |-> acc.out]
    ELSE [store |-> acc.store,
          out |-> IF Len(acc.out) < max_results THEN Append(acc.out, k) ELSE acc.out]

\* the loop of results(): [store, out] after the entries ks have been visited
RECURSIVE ResultsLoop(_, _, _, _)
ResultsLoop(ks, acc, max_results, expired_before) ==
    IF ks = <<>> THEN acc
    ELSE ResultsLoop(Tail(ks), ResultsVisit(acc, Head(ks), max_results, expired_before),
                     max_results, expired_before)

\* double expired_before = lsl_clock() - forget_after_;
ExpiredBeforeIgnoresForget(now, forget_after) == now
ExpiredBefore(now, forget_after) == now - forget_after

\* results(max_results) on a store
ResultsOf(store, max_results, forget_after) ==
    ResultsLoop(KeysInOrder(DOMAIN store), [store |-> store, out |-> <<>>],
                max_results, ExpiredBefore(lsl_clock, forget_after))

(* ------------------------- timers and handlers ------------------------- *)
Unarmed == [armed |-> FALSE, expiry |-> 0]
\* the main thread is in no call that holds arguments
NoArgs == [timeout |-> FOREVER, forget_after |-> FOREVER]
NoStore == [x \in {} |-> 0]
CancelPosts == <<"cancel_wave", "cancel_unicast", "cancel_timeout">>
TimerOfPost(h) ==
    CASE h = "cancel_wave" -> "wave"
      [] h = "cancel_unicast" -> "unicast"
      [] h = "cancel_timeout" -> "timeout"
Completed(name) ==
    CASE name = "wave" -> "wave_ok"
      [] name = "unicast" -> "unicast_ok"
      [] name = "timeout" -> "timeout_ok"
Aborted(name) ==
    CASE name = "wave" -> "wave_aborted"
      [] name = "unicast" -> "unicast_aborted"
      [] name = "timeout" -> "timeout_aborted"

\* timer.cancel(): a pending wait completes with operation_aborted; a wait
\* whose handler is already queued is not touched
TimerCancel(tm, q, name) ==
    IF tm[name].armed
    THEN [timers |-> [tm EXCEPT ![name] = Unarmed], queue |-> Append(q, Aborted(name))]
    ELSE [timers |-> tm, queue |-> q]

\* timer.expires_after(delay); timer.async_wait(handler): a wait that is still
\* pending is aborted first
TimerArm(tm, q, name, delay) ==
    [timers |-> [tm EXCEPT ![name] = [armed |-> TRUE, expiry |-> lsl_clock + delay]],
     queue |-> IF tm[name].armed THEN Append(q, Aborted(name)) ELSE q]

\* cancel_all_registered(): every registered attempt is told to cancel
cancel_all_registered(atts) ==
    {[a EXCEPT !.cancelled = TRUE, !.expiry = lsl_clock] : a \in atts}

\* cancel_ongoing_resolve(), called with the handler queue q
CancelOngoingResolveDirect(q) ==
    LET c1 == TimerCancel(timers, q, "wave")
        c2 == TimerCancel(c1.timers, c1.queue, "unicast")
        c3 == TimerCancel(c2.timers, c2.queue, "timeout")
    IN /\ expired_' = TRUE
       /\ queue' = c3.queue
       /\ timers' = c3.timers
       /\ attempts' = cancel_all_registered(attempts)
CancelOngoingResolveToggles(q) ==
    /\ expired_' = ~expired_
    /\ queue' = q \o CancelPosts
    /\ timers' = timers
    /\ attempts' = cancel_all_registered(attempts)
CancelOngoingResolve(q) ==
    /\ expired_' = TRUE
    /\ queue' = q \o CancelPosts
    /\ timers' = timers
    /\ attempts' = cancel_all_registered(attempts)

Stacks == SeqToSet(udp_protocols_)

\* the message a burst logs when no attempt could be started
LogLevel(kind) == IF kind = "multicast" THEN "ERROR" ELSE "WARNING"

\* one turn of the loop of udp_multicast_burst / udp_unicast_burst: the
\* attempt on the stack is created and begun, or the exception of a failed
\* start is caught, counted, and logged when the count reaches the number of
\* stacks
BurstTryLogsEveryFailure(acc, stack, failed, size, kind) ==
    IF stack \in failed
    THEN [acc EXCEPT !.failures = @ + 1, !.log = Append(@, LogLevel(kind))]
    ELSE [acc EXCEPT !.started = @ \cup {stack}]
BurstTry(acc, stack, failed, size, kind) ==
    IF stack \in failed
    THEN [acc EXCEPT !.failures = @ + 1,
                     !.log = IF acc.failures + 1 = size
                             THEN Append(@, LogLevel(kind)) ELSE @]
    ELSE [acc EXCEPT !.started = @ \cup {stack}]

RECURSIVE BurstLoop(_, _, _, _, _)
BurstLoop(protocols, k, acc, failed, kind) ==
    IF k > Len(protocols) THEN acc
    ELSE BurstLoop(protocols, k + 1,
                   BurstTry(acc, protocols[k], failed, Len(protocols), kind),
                   failed, kind)

\* a whole burst over the allowed stacks, given the stacks whose attempt
\* fails to start
StartBurst(kind, failed) ==
    BurstLoop(udp_protocols_, 1, [started |-> {}, failures |-> 0, log |-> <<>>], failed, kind)

\* the attempts a burst starts: one per protocol stack whose attempt could
\* be started (ok), each with its RTT budget
Burst(kind, ok) ==
    {[kind |-> kind, stack |-> s, cancelled |-> FALSE,
      expiry |-> lsl_clock + (IF kind = "multicast" THEN multicast_max_rtt
                                                    ELSE unicast_max_rtt)] : s \in ok}

\* the stop condition of next_resolve_wave
StopConditionWithoutFlags(num_results) ==
    minimum_ # 0 /\ num_results >= minimum_ /\ lsl_clock >= wait_until_
StopConditionWithoutCancelled(num_results) ==
    \/ expired_
    \/ (minimum_ # 0 /\ num_results >= minimum_ /\ lsl_clock >= wait_until_)
StopConditionFlagsOnly(num_results) == cancelled_ \/ expired_
StopConditionIgnoresMinimumZero(num_results) ==
    \/ cancelled_
    \/ expired_
    \/ (num_results >= minimum_ /\ lsl_clock >= wait_until_)
StopConditionIgnoresWaitUntil(num_results) ==
    \/ cancelled_
    \/ expired_
    \/ (minimum_ # 0 /\ num_results >= minimum_)
StopCondition(num_results) ==
    \/ cancelled_
    \/ expired_
    \/ (minimum_ # 0 /\ num_results >= minimum_ /\ lsl_clock >= wait_until_)

\* the delay next_resolve_wave arms wave_timer_ with
WaveTimerTimeoutNoUnicastDelay ==
    (IF fast_mode_ THEN 0 ELSE continuous_resolve_interval) + multicast_min_rtt
WaveTimerTimeoutIgnoresFastMode ==
    continuous_resolve_interval + multicast_min_rtt
    + (IF ucast_endpoints_ # 0 THEN unicast_min_rtt ELSE 0)
WaveTimerTimeout ==
    (IF fast_mode_ THEN 0 ELSE continuous_resolve_interval) + multicast_min_rtt
    + (IF ucast_endpoints_ # 0 THEN unicast_min_rtt ELSE 0)

(* ---------------------- the unicast endpoint list ---------------------- *)
\* the conversion of the int p to the port of an endpoint (unsigned short)
ToPort(p) == p % PortModulus

\* for (int p = base_port; p < base_port + port_range; p++) emplace_back(address, p)
RECURSIVE PortLoop(_, _, _, _)
PortLoop(address, p, base, range) ==
    IF p < base + range
    THEN <<[address |-> address, port |-> ToPort(p)]>> \o PortLoop(address, p + 1, base, range)
    ELSE <<>>

\* the loop over the results of udp_resolver.resolve(peer, ...)
RECURSIVE ResolveLoop(_, _, _, _)
ResolveLoop(res, i, base, range) ==
    IF i > Len(res) THEN <<>>
    ELSE PortLoop(res[i], base, base, range) \o ResolveLoop(res, i + 1, base, range)

\* one known peer: resolve throws and the exception is dropped, or every
\* resolved address is crossed with the ports
PeerEndpoints(peer, base, range) ==
    IF ~peer.resolves THEN <<>> ELSE ResolveLoop(peer.addresses, 1, base, range)

RECURSIVE UnicastEndpoints(_, _, _, _)
UnicastEndpoints(peers, k, base, range) ==
    IF k > Len(peers) THEN <<>>
    ELSE PeerEndpoints(peers[k], base, range) \o UnicastEndpoints(peers, k + 1, base, range)

\* the constructor has run with this configuration
Constructed(base, range, peers) ==
    /\ base_port_ = base
    /\ port_range_ = range
    /\ known_peers_ = peers
    /\ ucast_list = UnicastEndpoints(peers, 1, base, range)
    /\ ctor_k = 0

(* ------------------------------- Init ---------------------------------- *)
Init ==
    /\ cancelled_ = FALSE
    /\ expired_ = FALSE
    /\ query_ = ""
    /\ minimum_ = 0
    /\ wait_until_ = 0
    /\ forget_after_ = FOREVER
    /\ fast_mode_ = TRUE
    /\ results_ = NoStore
    /\ results_mut_ = "free"
    /\ ucast_endpoints_ \in {0, 1}
    /\ udp_protocols_ = <<"v4">>
    /\ background_io_ = FALSE
    /\ io_stopped = FALSE
    /\ queue = <<>>
    /\ timers = [n \in TimerNames |-> Unarmed]
    /\ attempts = {}
    /\ pc = [t \in Threads |-> CASE t = "main" -> "idle"
                                 [] t = "worker" -> "off"
                                 [] t = "other" -> "idle"]
    /\ args = NoArgs
    /\ ret = [status |-> "none", list |-> <<>>]
    /\ output = <<>>
    /\ max_results_arg = 0
    /\ calls = 0
    /\ cancels = 0
    /\ returned = {}
    /\ last_obs = [k \in Keys |-> -1]
    /\ store_before = NoStore
    /\ timeout_at = FOREVER
    /\ early_reply = FALSE
    /\ burst_log = <<>>
    /\ burst_failed = {}
    /\ Constructed(MidBasePort, 1, IF ucast_endpoints_ = 0 THEN <<>> ELSE <<[resolves |-> TRUE, addresses |-> <<"a1">>]>>)
    /\ called_cancelled = FALSE

(* ----------------------------- the clock ------------------------------- *)
IoPcs == {"run", "h_wave", "h_emit"}
IoRunning == \E t \in Threads : pc[t] \in IoPcs

\* the oldest last_seen that results() tells from older ones
StampFloor ==
    IF forget_after_ = FOREVER THEN lsl_clock
    ELSE IF lsl_clock - forget_after_ - 1 > 0 THEN lsl_clock - forget_after_ - 1 ELSE 0

\* The clock advances.  A thread that runs the I/O context dispatches a due
\* timer before it is more than MaxLate ticks late.  The expiry times of the
\* timers keep their distances, so that due timers are dispatched in the
\* order of their expiry: once a wait is as old as the window can tell, the
\* waits are aged no further until it has been dispatched or cancelled.
TickStep ==
    /\ IoRunning => \A n \in TimerNames :
                        timers[n].armed => timers[n].expiry > lsl_clock - MaxLate
    /\ results_' = [k \in DOMAIN results_ |-> Older(results_[k], StampFloor)]
    /\ wait_until_' = OlderDeadline(wait_until_)
    /\ timers' = IF \E n \in TimerNames : timers[n].armed /\ timers[n].expiry = 0
                 THEN timers
                 ELSE [n \in TimerNames |->
                         IF timers[n].armed
                         THEN [timers[n] EXCEPT !.expiry = @ - 1] ELSE timers[n]]
    /\ attempts' = {[a EXCEPT !.expiry = OlderDeadline(@)] : a \in attempts}
    /\ UNCHANGED <<cancelled_, expired_, query_, minimum_, forget_after_, fast_mode_,
                   ucast_endpoints_, udp_protocols_, background_io_, results_mut_, io_stopped, queue,
                   threadVars>>

Tick == TickStep /\ UNCHANGED histVars

(* --------------------------- query checker ----------------------------- *)
\* check_query: does the query parse as an XPath expression?
check_query(query) == query = "session_id='X'"

FiniteOrForever(max) == (0..max) \cup {FOREVER}

(* ------------------------- resolve_oneshot ----------------------------- *)
\* resolve_oneshot up to the clearing of the result store (lines 92-97); a
\* valid call is made on a resolver without a background worker
ResolveOneshotChecksLate(query, minimum, timeout, minimum_time) ==
    /\ pc["main"] = "idle"
    /\ io_stopped' = FALSE
    /\ query_' = query
    /\ minimum_' = minimum
    /\ wait_until_' = lsl_clock + minimum_time
    /\ IF ~check_query(query)
       THEN /\ ret' = [status |-> "InvalidQuery", list |-> <<>>]
            /\ UNCHANGED <<pc, args>>
       ELSE /\ ~background_io_
            /\ args' = [args EXCEPT !.timeout = timeout]
            /\ pc' = [pc EXCEPT !["main"] = "os_clear"]
            /\ UNCHANGED ret
    /\ UNCHANGED <<cancelled_, expired_, forget_after_, fast_mode_,
                   ucast_endpoints_, udp_protocols_, background_io_, queue, timers, attempts,
                   storeVars>>
    /\ UNCHANGED <<output, max_results_arg, cancels>>
ResolveOneshotStep(query, minimum, timeout, minimum_time) ==
    /\ pc["main"] = "idle"
    /\ IF ~check_query(query)
       THEN /\ ret' = [status |-> "InvalidQuery", list |-> <<>>]
            /\ UNCHANGED <<resolverVars, ioVars, storeVars, pc, args>>
       ELSE /\ ~background_io_
            /\ io_stopped' = FALSE
            /\ query_' = query
            /\ minimum_' = minimum
            /\ wait_until_' = lsl_clock + minimum_time
            /\ args' = [args EXCEPT !.timeout = timeout]
            /\ pc' = [pc EXCEPT !["main"] = "os_clear"]
            /\ UNCHANGED <<cancelled_, expired_, forget_after_, fast_mode_,
                           ucast_endpoints_, udp_protocols_, background_io_, queue, timers, attempts,
                           storeVars, ret>>
    /\ UNCHANGED <<output, max_results_arg, cancels>>

ResolveOneshot(query, minimum, timeout, minimum_time) ==
    /\ calls < MaxCalls
    /\ calls' = calls + 1
    /\ ResolveOneshotStep(query, minimum, timeout, minimum_time)
    /\ UNCHANGED histVars

\* results_.clear() and the rest of the set-up, with the timeout timer
\* (lines 98-110); the store is cleared without taking results_mut_
OneshotClearStep ==
    /\ pc["main"] = "os_clear"
    /\ results_' = NoStore
    /\ forget_after_' = FOREVER
    /\ fast_mode_' = TRUE
    /\ expired_' = FALSE
    /\ LET armed == IF args.timeout # FOREVER
                    THEN TimerArm(timers, queue, "timeout", args.timeout)
                    ELSE [timers |-> timers, queue |-> queue]
       IN timers' = armed.timers /\ queue' = armed.queue
    /\ pc' = [pc EXCEPT !["main"] = "os_wave"]
    /\ args' = NoArgs
    /\ UNCHANGED <<cancelled_, query_, minimum_, wait_until_, ucast_endpoints_, udp_protocols_,
                   background_io_, io_stopped, attempts, results_mut_,
                   ret, output, max_results_arg, calls, cancels>>

OneshotClear == OneshotClearStep /\ UNCHANGED histVars

\* if (!cancelled_) io_->run(); else return the empty list (lines 116, 122-123)
OneshotCheckAlwaysRuns ==
    /\ pc["main"] = "os_check"
    /\ pc' = [pc EXCEPT !["main"] = "run"]
    /\ UNCHANGED <<resolverVars, ioVars, storeVars, args, ret, output, max_results_arg,
                   calls, cancels>>
    /\ UNCHANGED histVars
OneshotCheck ==
    /\ pc["main"] = "os_check"
    /\ IF ~cancelled_
       THEN pc' = [pc EXCEPT !["main"] = "run"] /\ UNCHANGED ret
       ELSE /\ pc' = [pc EXCEPT !["main"] = "idle"]
            /\ ret' = [status |-> "ok", list |-> <<>>]
    /\ UNCHANGED <<resolverVars, ioVars, storeVars, args, output, max_results_arg,
                   calls, cancels>>
    /\ UNCHANGED histVars

\* collect the output from results_ and return it (lines 119-121); the store
\* is read without taking results_mut_
OneshotCollect ==
    /\ pc["main"] = "os_collect"
    /\ ret' = [status |-> "ok", list |-> KeysInOrder(DOMAIN results_)]
    /\ pc' = [pc EXCEPT !["main"] = "idle"]
    /\ UNCHANGED <<resolverVars, ioVars, storeVars, args, output, max_results_arg,
                   calls, cancels>>
    /\ UNCHANGED histVars

(* ------------------------ resolve_continuous --------------------------- *)
\* resolve_continuous up to the clearing of the result store (lines 127-132);
\* a valid call is made on a resolver without a background worker
ResolveContinuousStep(query, forget_after) ==
    /\ pc["main"] = "idle"
    /\ IF ~check_query(query)
       THEN /\ ret' = [status |-> "InvalidQuery", list |-> <<>>]
            /\ UNCHANGED <<resolverVars, ioVars, storeVars, pc, args>>
       ELSE /\ ~background_io_
            /\ io_stopped' = FALSE
            /\ query_' = query
            /\ minimum_' = 0
            /\ wait_until_' = 0
            /\ args' = [args EXCEPT !.forget_after = forget_after]
            /\ pc' = [pc EXCEPT !["main"] = "rc_clear"]
            /\ UNCHANGED <<cancelled_, expired_, forget_after_, fast_mode_,
                           ucast_endpoints_, udp_protocols_, background_io_, queue, timers, attempts,
                           storeVars, ret>>
    /\ UNCHANGED <<output, max_results_arg, cancels>>

ResolveContinuous(query, forget_after) ==
    /\ calls = 0
    /\ calls' = calls + 1
    /\ ResolveContinuousStep(query, forget_after)
    /\ UNCHANGED histVars

\* results_.clear() and the rest of the set-up (lines 133-136)
ContinuousClear ==
    /\ pc["main"] = "rc_clear"
    /\ results_' = NoStore
    /\ forget_after_' = args.forget_after
    /\ fast_mode_' = FALSE
    /\ expired_' = FALSE
    /\ pc' = [pc EXCEPT !["main"] = "rc_wave"]
    /\ args' = NoArgs
    /\ UNCHANGED <<cancelled_, query_, minimum_, wait_until_, ucast_endpoints_, udp_protocols_,
                   background_io_, ioVars, results_mut_,
                   ret, output, max_results_arg, calls, cancels>>
    /\ UNCHANGED histVars

\* spawn the thread that runs the I/O context (line 140)
ContinuousSpawn ==
    /\ pc["main"] = "rc_spawn"
    /\ background_io_' = TRUE
    /\ pc' = [pc EXCEPT !["main"] = "idle", !["worker"] = "run"]
    /\ ret' = [status |-> "ok", list |-> <<>>]
    /\ UNCHANGED <<cancelled_, expired_, query_, minimum_, wait_until_, forget_after_,
                   fast_mode_, ucast_endpoints_, udp_protocols_, ioVars, storeVars,
                   args, output, max_results_arg, calls, cancels>>
    /\ UNCHANGED histVars

(* ------------------------- next_resolve_wave --------------------------- *)
WavePcs == {"os_wave", "rc_wave", "h_wave"}
EmitPcs == {"os_emit", "rc_emit", "h_emit"}
EmitPcOf(p) ==
    CASE p = "os_wave" -> "os_emit" [] p = "rc_wave" -> "rc_emit" [] p = "h_wave" -> "h_emit"
\* where the caller of next_resolve_wave goes on
AfterWave(p) ==
    CASE p \in {"os_wave", "os_emit"} -> "os_check"
      [] p \in {"rc_wave", "rc_emit"} -> "rc_spawn"
      [] p \in {"h_wave", "h_emit"} -> "run"

\* next_resolve_wave up to its branch (lines 162-171): read the number of
\* results under the mutex, evaluate the stop condition, and on stop call
\* cancel_ongoing_resolve
WaveEnter(t) ==
    /\ pc[t] \in WavePcs
    /\ results_mut_ = "free"
    /\ IF StopCondition(Cardinality(DOMAIN results_))
       THEN /\ CancelOngoingResolve(queue)
            /\ pc' = [pc EXCEPT ![t] = AfterWave(pc[t])]
       ELSE /\ pc' = [pc EXCEPT ![t] = EmitPcOf(pc[t])]
            /\ UNCHANGED <<expired_, queue, timers, attempts>>
    /\ UNCHANGED <<cancelled_, query_, minimum_, wait_until_, forget_after_, fast_mode_,
                   ucast_endpoints_, udp_protocols_, background_io_, io_stopped, storeVars,
                   args, ret, output, max_results_arg, calls, cancels>>
    /\ UNCHANGED histVars

\* the else branch of next_resolve_wave (lines 172-188): the multicast burst,
\* then unicast_timer_ when there are unicast endpoints, then wave_timer_
WaveEmitStep(t, failed) ==
    /\ pc[t] \in EmitPcs
    /\ attempts' = attempts \cup Burst("multicast", StartBurst("multicast", failed).started)
    /\ LET u == IF ucast_endpoints_ # 0
                THEN TimerArm(timers, queue, "unicast", multicast_min_rtt)
                ELSE [timers |-> timers, queue |-> queue]
           w == TimerArm(u.timers, u.queue, "wave", WaveTimerTimeout)
       IN timers' = w.timers /\ queue' = w.queue
    /\ pc' = [pc EXCEPT ![t] = AfterWave(pc[t])]
    /\ UNCHANGED <<resolverVars, io_stopped, storeVars,
                   args, ret, output, max_results_arg, calls, cancels>>

WaveEmit(t) == \E failed \in SUBSET Stacks : WaveEmitStep(t, failed) /\ UNCHANGED histVars

(* ----------------------- the I/O context: run() ------------------------ *)
\* the thread that is in io_->run() takes the next ready handler and runs it;
\* failed: the stacks on which a unicast burst cannot start its attempt
RunHandlerStep(t, failed) ==
    /\ pc[t] = "run"
    /\ queue # <<>>
    /\ LET h == Head(queue)
           rest == Tail(queue)
       IN CASE h \in SeqToSet(CancelPosts) ->
                 \* [this]() { timer.cancel(); }
                 LET c == TimerCancel(timers, rest, TimerOfPost(h))
                 IN /\ timers' = c.timers
                    /\ queue' = c.queue
                    /\ UNCHANGED <<expired_, attempts, pc>>
            [] h = "wave_ok" ->
                 \* if (err != operation_aborted) next_resolve_wave();
                 /\ pc' = [pc EXCEPT ![t] = "h_wave"]
                 /\ queue' = rest
                 /\ UNCHANGED <<expired_, timers, attempts>>
            [] h = "unicast_ok" ->
                 \* udp_unicast_burst(ec): one attempt per protocol stack
                 /\ attempts' = attempts
                                 \cup Burst("unicast", StartBurst("unicast", failed).started)
                 /\ queue' = rest
                 /\ UNCHANGED <<expired_, timers, pc>>
            [] h = "timeout_ok" ->
                 \* if (err != operation_aborted) cancel_ongoing_resolve();
                 /\ CancelOngoingResolve(rest)
                 /\ UNCHANGED pc
            [] OTHER ->
                 \* a wait that completed with operation_aborted
                 /\ queue' = rest
                 /\ UNCHANGED <<expired_, timers, attempts, pc>>
    /\ UNCHANGED <<cancelled_, query_, minimum_, wait_until_, forget_after_, fast_mode_,
                   ucast_endpoints_, udp_protocols_, background_io_, io_stopped, storeVars,
                   args, ret, output, max_results_arg, calls, cancels>>

RunHandler(t) == \E failed \in SUBSET Stacks : RunHandlerStep(t, failed) /\ UNCHANGED histVars

\* the thread that is in io_->run() finds the wait of a timer due: its
\* handler becomes ready; due timers are taken earliest first
TimerDispatch(t, name) ==
    /\ pc[t] = "run"
    /\ timers[name].armed
    /\ timers[name].expiry <= lsl_clock
    /\ \A n \in TimerNames : timers[n].armed => timers[name].expiry <= timers[n].expiry
    /\ timers' = [timers EXCEPT ![name] = Unarmed]
    /\ queue' = Append(queue, Completed(name))
    /\ UNCHANGED <<resolverVars, io_stopped, attempts, storeVars, threadVars>>
    /\ UNCHANGED histVars

\* a resolve attempt receives the reply of stream k and feeds the result store
AttemptReceiveStep(t, a, k) ==
    /\ pc[t] = "run"
    /\ a \in attempts
    /\ ~a.cancelled
    /\ results_mut_ = "free"
    /\ results_' = upsert(results_, k, lsl_clock)
    /\ UNCHANGED <<resolverVars, ioVars, results_mut_, threadVars>>

AttemptReceive(t, a, k) == AttemptReceiveStep(t, a, k) /\ UNCHANGED histVars

\* a resolve attempt ends: its RTT budget has elapsed, or it was cancelled
AttemptFinish(t, a) ==
    /\ pc[t] = "run"
    /\ a \in attempts
    /\ a.cancelled \/ a.expiry <= lsl_clock
    /\ attempts' = attempts \ {a}
    /\ UNCHANGED <<resolverVars, io_stopped, queue, timers, storeVars, threadVars>>
    /\ UNCHANGED histVars

\* io_->run() returns: no handler is ready, no timer wait is pending and no
\* attempt is outstanding
RunReturnWhenNothingReady(t) ==
    /\ pc[t] = "run"
    /\ queue = <<>>
    /\ io_stopped' = TRUE
    /\ pc' = [pc EXCEPT ![t] = IF t = "main" THEN "os_collect" ELSE "done"]
    /\ UNCHANGED <<resolverVars, queue, timers, attempts, storeVars,
                   args, ret, output, max_results_arg, calls, cancels>>
    /\ UNCHANGED histVars
RunReturn(t) ==
    /\ pc[t] = "run"
    /\ queue = <<>>
    /\ \A n \in TimerNames : ~timers[n].armed
    /\ attempts = {}
    /\ io_stopped' = TRUE
    /\ pc' = [pc EXCEPT ![t] = IF t = "main" THEN "os_collect" ELSE "done"]
    /\ UNCHANGED <<resolverVars, queue, timers, attempts, storeVars,
                   args, ret, output, max_results_arg, calls, cancels>>
    /\ UNCHANGED histVars

(* ------------------------- cancel and results -------------------------- *)
Alive == pc["main"] \notin {"dtor_join", "destroyed"}

\* cancel()
CancelBody ==
    /\ cancelled_' = TRUE
    /\ CancelOngoingResolve(queue)

\* cancel(), called by the second thread
CancelStep ==
    /\ pc["other"] = "idle"
    /\ Alive
    /\ CancelBody
    /\ UNCHANGED <<query_, minimum_, wait_until_, forget_after_, fast_mode_,
                   ucast_endpoints_, udp_protocols_, background_io_, io_stopped, storeVars,
                   pc, args, ret, output, max_results_arg, calls>>

Cancel ==
    /\ cancels < MaxCancels
    /\ cancels' = cancels + 1
    /\ CancelStep
    /\ UNCHANGED histVars

\* results(max_results), called by the second thread: the whole loop runs
\* with results_mut_ held
ResultsStep(max_results) ==
    /\ pc["other"] = "idle"
    /\ Alive
    /\ results_mut_ = "free"
    /\ results_mut_' = "other"
    /\ LET r == ResultsOf(results_, max_results, forget_after_)
       IN results_' = r.store /\ output' = r.out
    /\ max_results_arg' = max_results
    /\ pc' = [pc EXCEPT !["other"] = "results"]
    /\ UNCHANGED <<resolverVars, ioVars, args, ret, calls, cancels>>

ResultsCall(max_results) == ResultsStep(max_results) /\ UNCHANGED histVars

\* results() returns and the lock_guard releases results_mut_
ResultsReturnStep ==
    /\ pc["other"] = "results"
    /\ results_mut_' = "free"
    /\ pc' = [pc EXCEPT !["other"] = "idle"]
    /\ output' = <<>>
    /\ max_results_arg' = 0
    /\ UNCHANGED <<resolverVars, ioVars, results_, args, ret, calls, cancels>>

ResultsReturn == ResultsReturnStep /\ UNCHANGED histVars

(* ---------------------------- destructor ------------------------------- *)
\* does the destructor wait for the worker before it returns?
JoinedNoWait == TRUE
Joined == pc["worker"] = "done"

\* ~resolver_impl: if (background_io_) { cancel(); ...
Destroy ==
    /\ pc["main"] = "idle"
    /\ pc["other"] = "idle"
    /\ IF background_io_
       THEN /\ CancelBody
            /\ pc' = [pc EXCEPT !["main"] = "dtor_join"]
       ELSE /\ pc' = [pc EXCEPT !["main"] = "destroyed"]
            /\ UNCHANGED <<cancelled_, expired_, queue, timers, attempts>>
    /\ UNCHANGED <<query_, minimum_, wait_until_, forget_after_, fast_mode_,
                   ucast_endpoints_, udp_protocols_, background_io_, io_stopped, storeVars,
                   args, ret, output, max_results_arg, calls, cancels>>
    /\ UNCHANGED histVars

\* ... background_io_->join(); }
DestroyJoin ==
    /\ pc["main"] = "dtor_join"
    /\ Joined
    /\ pc' = [pc EXCEPT !["main"] = "destroyed"]
    /\ UNCHANGED <<resolverVars, ioVars, storeVars, args, ret, output, max_results_arg,
                   calls, cancels>>
    /\ UNCHANGED histVars

(* --------------------------- specification ----------------------------- *)
IoNext(t) ==
    \/ RunHandler(t)
    \/ \E n \in TimerNames : TimerDispatch(t, n)
    \/ \E a \in attempts, k \in Keys : AttemptReceive(t, a, k)
    \/ \E a \in attempts : AttemptFinish(t, a)
    \/ RunReturn(t)
    \/ WaveEnter(t)
    \/ WaveEmit(t)

MainNext ==
    \/ \E q \in Queries, m \in 0..MaxMinimum, to \in FiniteOrForever(MaxTimeout),
          mt \in 0..MaxMinTime : ResolveOneshot(q, m, to, mt)
    \/ OneshotClear
    \/ OneshotCheck
    \/ OneshotCollect
    \/ \E q \in Queries, fa \in (1..MaxForget) \cup {FOREVER} : ResolveContinuous(q, fa)
    \/ ContinuousClear
    \/ ContinuousSpawn
    \/ Destroy
    \/ DestroyJoin

OtherNext ==
    \/ Cancel
    \/ \E m \in 0..MaxResults : ResultsCall(m)
    \/ ResultsReturn

Next ==
    \/ MainNext
    \/ OtherNext
    \/ \E t \in {"main", "worker"} : IoNext(t)
    \/ Tick

Spec == Init /\ [][Next]_vars

(* ------------- the result store of a continuous resolver -------------- *)
(* The store seen from the caller of results(): a continuous resolve with  *)
(* some forget_after is running, replies of the streams arrive in any      *)
(* order, the clock ticks, and results() is called with any max_results.   *)
InitStore ==
    /\ cancelled_ = FALSE
    /\ expired_ = FALSE
    /\ query_ = "session_id='X'"
    /\ minimum_ = 0
    /\ wait_until_ = 0
    /\ forget_after_ \in (1..MaxForget) \cup {FOREVER}
    /\ fast_mode_ = FALSE
    /\ results_ = NoStore
    /\ results_mut_ = "free"
    /\ ucast_endpoints_ = 0
    /\ udp_protocols_ = <<"v4">>
    /\ background_io_ = TRUE
    /\ io_stopped = FALSE
    /\ queue = <<>>
    /\ timers = [n \in TimerNames |-> Unarmed]
    /\ attempts = Burst("multicast", {"v4"})
    /\ pc = [t \in Threads |-> CASE t = "main" -> "idle"
                                 [] t = "worker" -> "run"
                                 [] t = "other" -> "idle"]
    /\ args = NoArgs
    /\ ret = [status |-> "ok", list |-> <<>>]
    /\ output = <<>>
    /\ max_results_arg = 0
    /\ calls = 1
    /\ cancels = 0
    /\ returned = {}
    /\ last_obs = [k \in Keys |-> -1]
    /\ store_before = NoStore
    /\ timeout_at = FOREVER
    /\ early_reply = FALSE
    /\ burst_log = <<>>
    /\ burst_failed = {}
    /\ Constructed(MidBasePort, 1, IF ucast_endpoints_ = 0 THEN <<>> ELSE <<[resolves |-> TRUE, addresses |-> <<"a1">>]>>)
    /\ called_cancelled = FALSE

StoreReceive(a, k) ==
    /\ AttemptReceiveStep("worker", a, k)
    /\ last_obs' = [last_obs EXCEPT ![k] = lsl_clock]
    /\ UNCHANGED <<returned, store_before, callHist, auxHist>>

\* results() reads the clock once (line 146) and runs with the mutex held:
\* the store is observed at the clock reading of the call
StoreTick ==
    /\ pc["other"] # "results"
    /\ TickStep
    /\ last_obs' = [k \in Keys |->
                      IF last_obs[k] < 0 THEN last_obs[k]
                      ELSE Older(last_obs[k], StampFloor)]
    /\ UNCHANGED <<returned, store_before, callHist, auxHist>>

StoreResults(max_results) ==
    /\ ResultsStep(max_results)
    /\ store_before' = results_
    /\ UNCHANGED <<returned, last_obs, callHist, auxHist>>

StoreResultsReturn ==
    /\ ResultsReturnStep
    /\ returned' = returned \cup SeqToSet(output)
    /\ store_before' = NoStore
    /\ UNCHANGED <<last_obs, callHist, auxHist>>

\* a further resolve call on the running resolver
StoreOneshotCall ==
    /\ \E q \in Queries, m \in 0..MaxMinimum, to \in FiniteOrForever(MaxTimeout),
          mt \in 0..MaxMinTime : ResolveOneshotStep(q, m, to, mt)
    /\ UNCHANGED <<calls, histVars>>

StoreContinuousCall ==
    /\ \E q \in Queries, fa \in (1..MaxForget) \cup {FOREVER} : ResolveContinuousStep(q, fa)
    /\ UNCHANGED <<calls, histVars>>

NextStore ==
    \/ \E a \in attempts, k \in Keys : StoreReceive(a, k)
    \/ StoreTick
    \/ \E m \in 0..MaxResults : StoreResults(m)
    \/ StoreResultsReturn
    \/ StoreOneshotCall
    \/ StoreContinuousCall

SpecStore == InitStore /\ [][NextStore]_vars

\* a results() call has run its loop and is about to return
InResults == pc["other"] = "results"
\* the keys of the entries of store whose last_seen is not before e
Fresh(store, e) == {k \in DOMAIN store : store[k] >= e}

\* C7 as stated: for every upsert(k, d, t) followed by a snapshot with any
\* max_results and a threshold e with t >= e, the descriptor of k is in the
\* output of the snapshot.
C7_AnyMaxResults ==
    InResults =>
        \A k \in Fresh(store_before, lsl_clock - forget_after_) : k \in SeqToSet(output)

\* C7 as amended: an entry upserted at t >= e is in the output of the snapshot
\* provided fewer than max_results entries with last_seen >= e come before it
\* in the iteration order of the store (so whenever max_results is at least
\* the number of entries that survive the snapshot).
C7_WithinMaxResults ==
    InResults =>
        \A k \in Fresh(store_before, lsl_clock - forget_after_) :
            Cardinality({j \in Fresh(store_before, lsl_clock - forget_after_) : j < k})
                < max_results_arg
            => k \in SeqToSet(output)

\* C7 witness: a snapshot returned an entry upserted at exactly t = e and left
\* out another fresh entry because the output was full.
C7_Witness ==
    /\ InResults
    /\ forget_after_ # FOREVER
    /\ \E k \in SeqToSet(output) : store_before[k] = lsl_clock - forget_after_
    /\ \E k \in Fresh(store_before, lsl_clock - forget_after_) : k \notin SeqToSet(output)

\* C9: results(max_results) never returns more than max_results descriptors,
\* for every store content and every max_results including 0.
C9_AtMostMaxResults == InResults => Len(output) <= max_results_arg

\* C9 witness: the store held more fresh entries than max_results and the
\* output holds exactly max_results of them.
C9_Witness ==
    /\ InResults
    /\ max_results_arg >= 1
    /\ Len(output) = max_results_arg
    /\ Cardinality(Fresh(store_before, lsl_clock - forget_after_)) > max_results_arg

\* C10: after results(max_results) the store holds no entry with last_seen <
\* expired_before, also none met after the output was full, and every entry
\* with last_seen >= expired_before is still in it, unchanged.
C10_ExactlyStaleEvicted ==
    InResults =>
        /\ DOMAIN results_ = Fresh(store_before, lsl_clock - forget_after_)
        /\ \A k \in DOMAIN results_ : results_[k] = store_before[k]

\* C10 witness: a stale entry that the loop met when the output already held
\* max_results descriptors has been evicted, and a fresh entry was kept.
C10_Witness ==
    /\ InResults
    /\ max_results_arg > 0
    /\ \E k \in DOMAIN store_before :
          /\ store_before[k] < lsl_clock - forget_after_
          /\ Cardinality({j \in Fresh(store_before, lsl_clock - forget_after_) : j < k})
                >= max_results_arg
          /\ k \notin DOMAIN results_
    /\ results_ # NoStore

\* has forget_after_ not yet elapsed since the last reply of stream k?
Remembered(k) == last_obs[k] >= 0 /\ lsl_clock - last_obs[k] < forget_after_

\* C8 as stated: a stream returned by one results() call is returned by every
\* later call until forget_after has elapsed since its last observation.
C8_MonotonicAnyMaxResults ==
    InResults => \A k \in returned : Remembered(k) => k \in SeqToSet(output)

\* C8 as amended: ... is returned by every later call whose max_results is at
\* least the number of entries the store holds after that call's eviction,
\* until forget_after has elapsed since the stream's last observation.
C8_MonotonicUncapped ==
    (InResults /\ max_results_arg >= Cardinality(DOMAIN results_)) =>
        \A k \in returned : Remembered(k) => k \in SeqToSet(output)

\* C8 witness: a later call returns again a stream an earlier call returned,
\* and no longer returns another one whose forget_after has elapsed.
C8_Witness ==
    /\ InResults
    /\ max_results_arg >= Cardinality(DOMAIN results_)
    /\ \E k \in returned : Remembered(k) /\ k \in SeqToSet(output)
    /\ \E k \in returned : ~Remembered(k) /\ k \notin SeqToSet(output)

(* ------------------- continuous mode, with fairness -------------------- *)
(* A resolver used as create_resolver uses it: resolve_continuous, then     *)
(* results() and cancel() from a second thread, then the destructor.  The   *)
(* worker thread is scheduled, the clock advances, and a thread that holds  *)
(* the mutex releases it.                                                   *)
NextContinuous ==
    \/ \E q \in Queries, fa \in (1..MaxForget) \cup {FOREVER} : ResolveContinuous(q, fa)
    \/ ContinuousClear
    \/ ContinuousSpawn
    \/ Destroy
    \/ DestroyJoin
    \/ OtherNext
    \/ \E t \in {"main", "worker"} : IoNext(t)
    \/ Tick

FairContinuous ==
    /\ WF_vars(RunHandler("worker"))
    /\ WF_vars(\E n \in TimerNames : TimerDispatch("worker", n))
    /\ WF_vars(\E a \in attempts : AttemptFinish("worker", a))
    /\ WF_vars(RunReturn("worker"))
    \* the worker gets results_mut_ although another thread takes it again
    \* and again
    /\ SF_vars(WaveEnter("worker"))
    /\ WF_vars(WaveEmit("worker"))
    /\ WF_vars(Tick)
    /\ WF_vars(ResultsReturn)
    /\ WF_vars(DestroyJoin)

SpecContinuous == Init /\ [][NextContinuous]_vars /\ FairContinuous

(* ------------------------- the wave scheduler -------------------------- *)
\* thread t evaluates the stop condition of next_resolve_wave in this step
Entering(t) == pc[t] \in WavePcs /\ pc'[t] \notin WavePcs
\* thread t runs the else branch of next_resolve_wave in this step
Emitting(t) == pc[t] \in EmitPcs /\ pc'[t] \notin EmitPcs
\* this step took a handler from the queue of the I/O context
Popped == queue # <<>> /\ ~(Len(queue') >= Len(queue) /\ SubSeq(queue', 1, Len(queue)) = queue)
\* the step posted the three timer cancellations
PostedCancels ==
    /\ Len(queue') >= 3
    /\ SubSeq(queue', Len(queue') - 2, Len(queue')) = CancelPosts
\* the stop branch: cancel_ongoing_resolve ran, no burst, no timer armed
StopBranch(t) ==
    /\ pc'[t] = AfterWave(pc[t])
    /\ expired_'
    /\ queue' = queue \o CancelPosts
    /\ timers' = timers
    /\ \A a \in attempts' : a.cancelled
\* the else branch was chosen: nothing changes but the position of t
ElseBranch(t) ==
    /\ pc'[t] = EmitPcOf(pc[t])
    /\ UNCHANGED <<expired_, queue, timers, attempts>>

\* C1: each time next_resolve_wave is entered it takes the stop branch iff
\* cancelled is set, or expired is set, or (minimum_count > 0 and the store
\* holds at least minimum_count entries and now >= wait_until); in every
\* other case it starts a multicast burst and arms wave_timer.
C1_StopBranchIffCondition ==
    [][\A t \in Threads :
          /\ Entering(t) =>
                IF \/ cancelled_
                   \/ expired_
                   \/ /\ minimum_ > 0
                      /\ Cardinality(DOMAIN results_) >= minimum_
                      /\ lsl_clock >= wait_until_
                THEN StopBranch(t) ELSE ElseBranch(t)
          /\ Emitting(t) =>
                /\ timers'["wave"].armed
                /\ timers'["wave"].expiry >= lsl_clock + multicast_min_rtt
                /\ \A a \in attempts' \ attempts : a.kind = "multicast" /\ ~a.cancelled
                /\ attempts \subseteq attempts'
      ]_vars

\* C1 witness: a one-shot resolve that nobody cancelled and whose timeout is
\* still pending has stopped in the stop branch because the store held
\* minimum_ entries.
C1_Witness ==
    /\ cancels = 0
    /\ ~cancelled_
    /\ expired_
    /\ timers["timeout"].armed
    /\ minimum_ > 0
    /\ Cardinality(DOMAIN results_) >= minimum_
    /\ ~timers["wave"].armed

\* C2 as stated: after cancel() has been called no further wave is emitted:
\* every later entry of next_resolve_wave takes the stop branch, so no
\* multicast burst is started and wave_timer is never re-armed.
C2_NoWaveAfterCancel ==
    [][cancelled_ => \A t \in Threads :
                        /\ Entering(t) => StopBranch(t)
                        /\ ~Emitting(t)]_vars

\* C2 as amended: every entry of next_resolve_wave made after cancel() takes
\* the stop branch and starts no burst and arms no timer; a wave that
\* evaluated its stop condition before cancel() may still start its burst and
\* arm wave_timer after it.
C2_EntryAfterCancelStops ==
    [][cancelled_ => \A t \in Threads : Entering(t) => StopBranch(t)]_vars

\* C2 witness: cancel() ran before the first wave of a resolve_oneshot; the
\* wave took the stop branch (the queue holds the posts of cancel() and of
\* the stop branch, no timer but the timeout is armed, no attempt exists).
C2_Witness ==
    /\ pc["main"] = "os_check"
    /\ cancelled_
    /\ queue = CancelPosts \o CancelPosts
    /\ ~timers["wave"].armed
    /\ ~timers["unicast"].armed
    /\ attempts = {}

\* cancel() has returned and the worker has been joined (continuous mode) or
\* resolve_oneshot has returned (one-shot mode)
Quiesced ==
    /\ cancelled_
    /\ \/ background_io_ /\ pc["main"] = "destroyed"
       \/ ~background_io_ /\ pc["main"] = "idle" /\ ret.status = "ok"

\* C3: once cancel() has returned and the background worker has been joined
\* or resolve_oneshot has returned, no scheduler or attempt callback executes
\* any more and no timer fires: no handler is taken from the queue, no timer
\* is dispatched or armed, no attempt is started or ended, no reply is stored.
C3_NothingRunsAfterCancel ==
    [][Quiesced =>
          /\ ~Popped
          /\ \A n \in TimerNames : timers'[n].armed = timers[n].armed
          /\ Cardinality(attempts') = Cardinality(attempts)
          /\ \A k \in DOMAIN results_' : k \in DOMAIN results_ /\ results_'[k] <= results_[k]
          /\ \A t \in Threads : pc'[t] \notin IoPcs
      ]_vars

\* C3 witness: resolve_oneshot has returned after a cancel() and left a
\* pending timeout wait, queued handlers and an attempt behind; none of them
\* runs.
C3_Witness ==
    /\ Quiesced
    /\ ~background_io_
    /\ timers["timeout"].armed
    /\ timers["wave"].armed
    /\ queue # <<>>
    /\ attempts # {}

\* C4: in continuous mode the destructor's join always completes: after its
\* cancel() the event loop of the worker runs out of work.
C4_JoinCompletes == (pc["main"] = "dtor_join") ~> (pc["main"] = "destroyed")

\* C4 witness: the destructor of a continuous resolver that nobody else
\* cancelled has joined the worker, whose event loop has run out of work.
C4_Witness ==
    /\ pc["main"] = "destroyed"
    /\ background_io_
    /\ pc["worker"] = "done"
    /\ cancels = 0
    /\ io_stopped

\* this step aborted the pending wait of timer n
WaitAborted(n) ==
    /\ timers[n].armed
    /\ ~timers'[n].armed
    /\ queue' # <<>>
    /\ queue'[Len(queue')] = Aborted(n)
\* this step ran cancel_ongoing_resolve
CancelOngoingStep ==
    \/ cancels' # cancels
    \/ pc["main"] = "idle" /\ pc'["main"] = "dtor_join"
    \/ \E t \in Threads : Entering(t) /\ pc'[t] \notin EmitPcs
    \/ Popped /\ Head(queue) = "timeout_ok"

\* C5: a thread that calls cancel() or cancel_ongoing_resolve never cancels a
\* timer itself: it posts the three cancellations, and the wait of a timer
\* is aborted only by the thread that runs the I/O context, when it runs the
\* posted handler.
C5_TimersCancelledOnlyByPosts ==
    [][/\ CancelOngoingStep => timers' = timers /\ PostedCancels
       /\ \A n \in TimerNames :
             WaitAborted(n) =>
                /\ Popped
                /\ TimerOfPost(Head(queue)) = n
                /\ \E t \in {"main", "worker"} : pc[t] = "run"
      ]_vars

\* C5 witness: cancel() was called while the worker runs the I/O context:
\* wave_timer_ is still armed and its cancellation waits in the queue.
C5_Witness ==
    /\ pc["worker"] = "run"
    /\ cancels = 1
    /\ timers["wave"].armed
    /\ \E i \in 1..Len(queue) : queue[i] = "cancel_wave"

\* the threads that are inside an access to results_
StoreAccessors ==
    {t \in Threads : \/ t = "other" /\ pc[t] = "results"
                     \/ t = "main" /\ pc[t] \in {"os_clear", "rc_clear", "os_collect"}}

\* C6 as stated: every access to the result store is made with the mutex
\* held, so no two threads are inside the store at the same time, also when
\* results() runs concurrently with resolve_oneshot or resolve_continuous.
C6_NoTwoThreadsInStore == Cardinality(StoreAccessors) <= 1

(* ---------------------- one-shot mode, with time ----------------------- *)
(* One resolve_oneshot call on a fresh resolver, run on the calling thread, *)
(* with cancel() and results() called by a second thread.  The deadline of  *)
(* the timeout is remembered next to wait_until_; the calling thread is     *)
(* scheduled, the clock advances, and a thread that holds the mutex         *)
(* releases it.                                                             *)

\* the part of the stop condition of next_resolve_wave that is about results
StopOnCount ==
    /\ minimum_ > 0
    /\ Cardinality(DOMAIN results_) >= minimum_
    /\ lsl_clock >= wait_until_

OneshotClearTimed ==
    /\ OneshotClearStep
    /\ timeout_at' = IF args.timeout = FOREVER THEN FOREVER ELSE lsl_clock + args.timeout
    /\ early_reply' = FALSE
    /\ UNCHANGED <<storeHist, auxHist>>

OneshotTick ==
    /\ TickStep
    /\ timeout_at' = IF timeout_at = FOREVER THEN FOREVER ELSE OlderDeadline(timeout_at)
    /\ UNCHANGED <<storeHist, early_reply, auxHist>>

OneshotReceive(a, k) ==
    /\ AttemptReceiveStep("main", a, k)
    /\ early_reply' = (\/ early_reply
                       \/ /\ a.kind = "multicast"
                          /\ timers["unicast"].armed
                          /\ minimum_ > 0
                          /\ Cardinality(DOMAIN results_') >= minimum_
                          /\ lsl_clock >= wait_until_)
    /\ UNCHANGED <<storeHist, timeout_at, auxHist>>

NextOneshot ==
    \/ \E q \in Queries, m \in 0..MaxMinimum, to \in FiniteOrForever(MaxTimeout),
          mt \in 0..MaxMinTime : ResolveOneshot(q, m, to, mt)
    \/ OneshotClearTimed
    \/ OneshotCheck
    \/ OneshotCollect
    \/ Cancel
    \/ ResultsCall(MaxResults)
    \/ ResultsReturn
    \/ RunHandler("main")
    \/ \E n \in TimerNames : TimerDispatch("main", n)
    \/ \E a \in attempts, k \in Keys : OneshotReceive(a, k)
    \/ \E a \in attempts : AttemptFinish("main", a)
    \/ RunReturn("main")
    \/ WaveEnter("main")
    \/ WaveEmit("main")
    \/ OneshotTick

FairOneshot ==
    /\ WF_vars(OneshotClearTimed)
    /\ WF_vars(OneshotCheck)
    /\ WF_vars(OneshotCollect)
    /\ WF_vars(RunHandler("main"))
    /\ WF_vars(\E n \in TimerNames : TimerDispatch("main", n))
    /\ WF_vars(\E a \in attempts : AttemptFinish("main", a))
    /\ WF_vars(RunReturn("main"))
    \* a thread that waits for results_mut_ gets it when it is released again
    \* and again
    /\ SF_vars(WaveEnter("main"))
    /\ WF_vars(WaveEmit("main"))
    /\ WF_vars(OneshotTick)
    /\ WF_vars(ResultsReturn)

SpecOneshot == Init /\ [][NextOneshot]_vars /\ FairOneshot

\* io_->run() has returned in resolve_oneshot: the call collects its output
\* and returns, at this reading of the clock
RunCompleted == pc["main"] = "os_collect"

\* C11 as stated: resolve_oneshot with minimum_count = N and minimum_time = T
\* does not return before T has elapsed since the call when at least N
\* streams have answered, whatever the timeout argument (here for a call that
\* nobody cancels and N > 0).
C11_NotBeforeMinimumTime ==
    (RunCompleted /\ ~cancelled_ /\ minimum_ > 0
        /\ Cardinality(DOMAIN results_) >= minimum_)
    => lsl_clock >= wait_until_

\* C11 as amended: a resolve_oneshot call that is not cancelled does not
\* return before T or the timeout, whichever is earlier, has elapsed since
\* the call.
C11_NotBeforeMinimumTimeOrTimeout ==
    (RunCompleted /\ ~cancelled_ /\ Cardinality(DOMAIN results_) >= minimum_)
    => (lsl_clock >= wait_until_ \/ lsl_clock >= timeout_at)

\* C11 witness: a call with N > 0 returns with N streams in the store after
\* minimum_time has elapsed, before its timeout.
C11_Witness ==
    /\ RunCompleted
    /\ ~cancelled_
    /\ minimum_ > 0
    /\ Cardinality(DOMAIN results_) >= minimum_
    /\ lsl_clock >= wait_until_
    /\ timeout_at > lsl_clock

\* C12: resolve_oneshot with a finite timeout always returns; when the
\* timeout timer fires cancel_ongoing_resolve runs and no wave is emitted
\* afterwards; and the call does not return before the deadline of the
\* timeout unless the stop condition on count and wait_until was met or
\* cancel() was called.
C12_FiniteTimeoutReturns ==
    /\ (pc["main"] = "os_wave" /\ timeout_at # FOREVER) ~> (pc["main"] = "idle")
    /\ [][/\ (Popped /\ Head(queue) = "timeout_ok") => (expired_' /\ PostedCancels)
          /\ (expired_ /\ ~cancelled_) => ~Emitting("main")]_vars
    /\ []((RunCompleted /\ ~cancelled_ /\ lsl_clock < timeout_at) => StopOnCount)

\* C12 witness: a call that nobody cancelled and whose stop condition on
\* count was not met has returned after the deadline of its timeout.
C12_Witness ==
    /\ pc["main"] = "idle"
    /\ ret.status = "ok"
    /\ ~cancelled_
    /\ ~StopOnCount
    /\ timeout_at <= lsl_clock
    /\ results_ # NoStore

\* resolve_oneshot returns in this step
OneshotReturns == pc["main"] \in {"os_check", "os_collect"} /\ pc'["main"] = "idle"

\* C13 as stated: when resolve_oneshot returns, on every return path, none of
\* the three timers is armed, no posted handler is queued and no resolve
\* attempt is outstanding.
C13_NoWorkLeftOnAnyReturn ==
    [][OneshotReturns =>
          /\ \A n \in TimerNames : ~timers[n].armed
          /\ queue = <<>>
          /\ attempts = {}]_vars

\* C13 as amended: when resolve_oneshot returns after it has run its event
\* loop, no timer is armed, no attempt is outstanding and no handler is
\* queued but timer cancellations posted by a cancel() that came after the
\* loop had ended; when it returns because cancelled_ was set (line 122) it has
\* not run the loop, and armed timers, posted handlers and attempts may be
\* left behind.
C13_NoWorkLeftAfterRun ==
    [][/\ (pc["main"] = "run" /\ pc'["main"] = "os_collect") =>
             /\ \A n \in TimerNames : ~timers[n].armed
             /\ queue = <<>>
             /\ attempts = {}
       /\ (pc["main"] = "os_collect" /\ pc'["main"] = "idle") =>
             /\ \A n \in TimerNames : ~timers[n].armed
             /\ attempts = {}
             /\ \A i \in 1..Len(queue) : queue[i] \in SeqToSet(CancelPosts)
             /\ queue # <<>> => cancelled_
       /\ (pc["main"] = "os_check" /\ pc'["main"] = "idle") => cancelled_
      ]_vars

\* C13 witness: a call has returned after its event loop ran through a wave
\* with a unicast burst and a timeout timer, and nothing is left.
C13_Witness ==
    /\ pc["main"] = "idle"
    /\ ret.status = "ok"
    /\ io_stopped
    /\ ucast_endpoints_ # 0
    /\ timeout_at # FOREVER
    /\ results_ # NoStore
    /\ queue = <<>>
    /\ \A n \in TimerNames : ~timers[n].armed
    /\ attempts = {}

\* C14 as stated: resolve_oneshot returns the empty list whenever the resolve
\* was cancelled by cancel(): also when every cancel() came while the call
\* ran its event loop (none after the loop ended: no posted cancellation is
\* left in the queue).
C14_EmptyWheneverCancelled ==
    [][(OneshotReturns /\ cancelled_ /\ queue = <<>>) => ret'.list = <<>>]_vars

\* C14 as amended: resolve_oneshot returns the empty list when cancelled is
\* set at its check before the event loop (cancel() before the call, or
\* during its set-up and first wave); a call that has entered the event loop
\* returns the streams that are in the result store when the loop ends, also
\* when cancel() ended the loop.
C14_EmptyWhenCancelledBeforeRun ==
    [][/\ (pc["main"] = "os_check" /\ pc'["main"] # "os_check") =>
             IF cancelled_
             THEN pc'["main"] = "idle" /\ ret' = [status |-> "ok", list |-> <<>>]
             ELSE pc'["main"] = "run" /\ ret' = ret
       /\ (pc["main"] = "os_collect" /\ pc'["main"] = "idle") =>
             /\ ret'.status = "ok"
             /\ SeqToSet(ret'.list) = DOMAIN results_
             /\ Len(ret'.list) = Cardinality(DOMAIN results_)
      ]_vars

\* C14 witness: cancel() was called while the call ran its event loop with an
\* entry in the store, and the call has returned that entry.
C14_Witness ==
    /\ pc["main"] = "idle"
    /\ ret.status = "ok"
    /\ cancelled_
    /\ queue = <<>>
    /\ ret.list # <<>>

\* C15: a resolve_oneshot or resolve_continuous call whose query fails
\* validation raises InvalidQuery before any effect: the result store, the
\* query, minimum_, wait_until_, forget_after_, fast_mode_, expired_ and
\* cancelled_ are unchanged, no timer is armed, no attempt is created, no
\* worker is spawned; an invalid query never becomes the query of a resolve.
C15_InvalidQueryNoEffect ==
    /\ [][(ret' # ret /\ ret'.status = "InvalidQuery") =>
             UNCHANGED <<results_, query_, minimum_, wait_until_, forget_after_,
                         fast_mode_, expired_, cancelled_, timers, attempts,
                         background_io_, queue, io_stopped, pc, args>>]_vars
    /\ [](query_ # "not a valid predicate")

\* C15 witness: a call with an invalid query was made on a running
\* continuous resolver with streams in its store, and has raised.
C15_Witness ==
    /\ ret.status = "InvalidQuery"
    /\ background_io_
    /\ pc["worker"] = "run"
    /\ results_ # NoStore
    /\ attempts # {}
    /\ query_ = "session_id='X'"

\* the handler of unicast_timer_ runs without error in this step
UnicastHandlerRuns == Popped /\ Head(queue) = "unicast_ok"

\* C16 as stated: in a wave with unicast endpoints, if a multicast reply that
\* arrives before unicast_timer fires makes the stop condition true, the
\* unicast burst of that wave is not sent.
C16_NoUnicastBurstAfterEarlyReply ==
    [][(UnicastHandlerRuns /\ early_reply) => attempts' = attempts]_vars

\* C16 as amended: the stop condition is evaluated only when a wave starts.
\* The handler of unicast_timer starts the unicast burst without evaluating
\* it (it sets no flag and touches no timer), also after a multicast reply
\* has made it true; the next entry of next_resolve_wave then takes the stop
\* branch, so no further wave follows.
C16_StopOnlyAtNextWave ==
    [][/\ UnicastHandlerRuns =>
             /\ attempts \subseteq attempts'
             /\ \A a \in attempts' \ attempts : a.kind = "unicast" /\ ~a.cancelled
             /\ UNCHANGED <<expired_, cancelled_, timers>>
             /\ queue' = Tail(queue)
       /\ (early_reply /\ Entering("main")) => StopBranch("main")
      ]_vars

\* C16 witness: a multicast reply met the stop condition while unicast_timer
\* was pending, nobody cancelled, and the unicast burst of the wave has been
\* started all the same.
C16_Witness ==
    /\ early_reply
    /\ ~cancelled_
    /\ ~expired_
    /\ StopOnCount
    /\ \E a \in attempts : a.kind = "unicast" /\ ~a.cancelled

\* C17: within every wave the multicast burst is started before the unicast
\* burst, which starts no earlier than multicast_min_rtt after it (the wave
\* timer armed together with the multicast burst has by then run down by at
\* least multicast_min_rtt); and the unicast burst of a wave starts before
\* the multicast burst of the next wave: when a wave is emitted no unicast
\* wait and no unicast handler of an earlier wave is pending.
C17_BurstOrder ==
    [][/\ \A t \in Threads : Emitting(t) =>
             /\ ~timers["unicast"].armed
             /\ \A i \in 1..Len(queue) : queue[i] # "unicast_ok"
             /\ ucast_endpoints_ # 0 =>
                   /\ timers'["unicast"].armed
                   /\ timers'["unicast"].expiry = lsl_clock + multicast_min_rtt
                   /\ timers'["unicast"].expiry < timers'["wave"].expiry
       /\ (UnicastHandlerRuns /\ timers["wave"].armed) =>
             timers["wave"].expiry - lsl_clock
                <= (IF fast_mode_ THEN 0 ELSE continuous_resolve_interval) + unicast_min_rtt
       /\ UnicastHandlerRuns => \A t \in Threads : pc[t] \notin WavePcs \cup EmitPcs
      ]_vars

\* C17 witness: the second wave of a resolve with unicast endpoints is about
\* to be emitted while an attempt of the unicast burst of the first wave is
\* still outstanding.
C17_Witness ==
    /\ \E t \in Threads : pc[t] = "h_emit"
    /\ ucast_endpoints_ # 0
    /\ \E a \in attempts : a.kind = "unicast" /\ ~a.cancelled


(* --------------------------- continuous mode --------------------------- *)
\* the next wave of the running scheduler is on its way: wave_timer_ is
\* pending, or its handler is queued, or the worker is in next_resolve_wave
NextWavePending ==
    \/ timers["wave"].armed
    \/ \E i \in 1..Len(queue) : queue[i] = "wave_ok"
    \/ pc["worker"] \in {"h_wave", "h_emit"}

\* C18: with minimum_count = 0 the scheduler never stops on the number of
\* results: whatever the result store holds, an entry of next_resolve_wave
\* with cancelled and expired clear takes the else branch, and the else
\* branch arms wave_timer; a running continuous resolver that has not been
\* cancelled is not expired, always has its next wave pending, and emits
\* wave after wave until cancel() is called (by a caller or the destructor).
C18_ContinuousNeverStopsOnCount ==
    /\ [][\A t \in Threads :
            /\ (Entering(t) /\ minimum_ = 0 /\ ~cancelled_ /\ ~expired_) => ElseBranch(t)
            /\ Emitting(t) => timers'["wave"].armed]_vars
    /\ []((background_io_ /\ ~cancelled_) => (minimum_ = 0 /\ ~expired_ /\ NextWavePending))
    /\ (background_io_ /\ ~cancelled_) ~> (cancelled_ \/ pc["worker"] = "h_emit")
\* the worker of a running continuous resolver emits a wave while the store
\* holds every stream
C18_Witness ==
    /\ background_io_
    /\ ~cancelled_
    /\ pc["worker"] = "h_emit"
    /\ DOMAIN results_ = Keys


(* ------------------------- repeated cancel() --------------------------- *)
(* Both resolve modes with cancel() called up to MaxRepeatedCancels times  *)
(* by the second thread, at any point, and once more by the destructor of  *)
(* a continuous resolver.                                                  *)
CancelRepeated ==
    /\ cancels < MaxRepeatedCancels
    /\ cancels' = cancels + 1
    /\ CancelStep
    /\ UNCHANGED histVars

NextCancel ==
    \/ MainNext
    \/ CancelRepeated
    \/ \E t \in {"main", "worker"} : IoNext(t)
    \/ Tick

SpecCancel == Init /\ [][NextCancel]_vars

\* this step is a call of cancel(), by the second thread or by the destructor
CancelCalled ==
    \/ cancels' # cancels
    \/ pc["main"] = "idle" /\ pc'["main"] = "dtor_join"
\* the attempts that are registered, whatever their state
Registered(atts) == {<<a.kind, a.stack>> : a \in atts}
\* a resolve was called and has returned, and no thread is in the resolver
AtRest ==
    /\ ret.status = "ok"
    /\ pc["main"] \in {"idle", "destroyed"}
    /\ pc["worker"] \in {"off", "done"}
    /\ pc["other"] = "idle"

\* C19 as stated: whenever cancel() was called, once or several times, the
\* resolver comes to rest with cancelled and expired set, every timer
\* unarmed, no attempt outstanding and no handler left in the event loop.
C19_DrainedAfterAnyCancel ==
    (cancelled_ /\ AtRest) =>
        /\ expired_
        /\ \A n \in TimerNames : ~timers[n].armed
        /\ attempts = {}
        /\ queue = <<>>
\* C19: every call of cancel() sets cancelled and expired, tells every
\* registered attempt to cancel and posts the three timer cancellations; a
\* call on a resolver that is already cancelled, expired and has no attempt
\* left to cancel changes nothing else.  Once the event loop has run to its
\* end on a cancelled resolver, expired is set, no timer is armed, no attempt
\* is outstanding and the loop holds nothing but cancellations posted after
\* its end.
C19_CancelIdempotent ==
    /\ [][CancelCalled =>
            /\ cancelled_' /\ expired_'
            /\ queue' = queue \o CancelPosts
            /\ timers' = timers
            /\ Registered(attempts') = Registered(attempts)
            /\ \A a \in attempts' : a.cancelled
            /\ UNCHANGED <<query_, minimum_, wait_until_, forget_after_, fast_mode_,
                           ucast_endpoints_, udp_protocols_, background_io_,
                           io_stopped, storeVars>>]_vars
    /\ []((cancelled_ /\ io_stopped) =>
            /\ expired_
            /\ \A n \in TimerNames : ~timers[n].armed
            /\ attempts = {}
            /\ \A i \in 1..Len(queue) : queue[i] \in SeqToSet(CancelPosts))
\* cancel() was called a second time and the event loop then ran to its end
C19_Witness ==
    /\ cancels = MaxRepeatedCancels
    /\ cancelled_
    /\ io_stopped
    /\ queue = <<>>


(* ------------------------- the wave interval --------------------------- *)
\* C20: a wave that does not stop arms wave_timer with
\* (fast_mode ? 0 : continuous_resolve_interval) + multicast_min_rtt, plus
\* unicast_min_rtt when the list of unicast endpoints is not empty; it arms
\* unicast_timer, with multicast_min_rtt, exactly when that list is not
\* empty, and with an empty list there is never a unicast wait, a unicast
\* handler or a unicast attempt.
C20_WaveInterval ==
    /\ [][\A t \in Threads : Emitting(t) =>
            /\ timers'["wave"] =
                  [armed |-> TRUE,
                   expiry |-> lsl_clock
                              + (IF fast_mode_ THEN 0 ELSE continuous_resolve_interval)
                              + multicast_min_rtt
                              + (IF ucast_endpoints_ # 0 THEN unicast_min_rtt ELSE 0)]
            /\ IF ucast_endpoints_ # 0
               THEN timers'["unicast"] =
                       [armed |-> TRUE, expiry |-> lsl_clock + multicast_min_rtt]
               ELSE timers'["unicast"] = Unarmed]_vars
    /\ [](ucast_endpoints_ = 0 =>
            /\ ~timers["unicast"].armed
            /\ \A i \in 1..Len(queue) : queue[i] \notin {"unicast_ok", "unicast_aborted"}
            /\ \A a \in attempts : a.kind # "unicast")
\* a continuous resolver with unicast endpoints has both timers pending
C20_Witness ==
    /\ ~fast_mode_
    /\ ucast_endpoints_ # 0
    /\ timers["unicast"].armed
    /\ timers["wave"].armed
    /\ timers["wave"].expiry - timers["unicast"].expiry
          = continuous_resolve_interval + unicast_min_rtt


(* ------------------ bursts with failing protocol stacks ---------------- *)
(* One-shot resolves on a resolver with any set of allowed protocol stacks *)
(* (the constructor pushes v6 before v4, lines 49-56), where any attempt   *)
(* of any burst can fail to start.  The history variables record which     *)
(* attempts failed in the last burst and what the burst logged.            *)
InitBurst ==
    /\ cancelled_ = FALSE
    /\ expired_ = FALSE
    /\ query_ = ""
    /\ minimum_ = 0
    /\ wait_until_ = 0
    /\ forget_after_ = FOREVER
    /\ fast_mode_ = TRUE
    /\ results_ = NoStore
    /\ results_mut_ = "free"
    /\ ucast_endpoints_ \in {0, 1}
    /\ udp_protocols_ \in {<<>>, <<"v6">>, <<"v4">>, <<"v6", "v4">>}
    /\ background_io_ = FALSE
    /\ io_stopped = FALSE
    /\ queue = <<>>
    /\ timers = [n \in TimerNames |-> Unarmed]
    /\ attempts = {}
    /\ pc = [t \in Threads |-> CASE t = "main" -> "idle"
                                 [] t = "worker" -> "off"
                                 [] t = "other" -> "idle"]
    /\ args = NoArgs
    /\ ret = [status |-> "none", list |-> <<>>]
    /\ output = <<>>
    /\ max_results_arg = 0
    /\ calls = 0
    /\ cancels = 0
    /\ returned = {}
    /\ last_obs = [k \in Keys |-> -1]
    /\ store_before = NoStore
    /\ timeout_at = FOREVER
    /\ early_reply = FALSE
    /\ burst_log = <<>>
    /\ burst_failed = {}
    /\ Constructed(MidBasePort, 1, IF ucast_endpoints_ = 0 THEN <<>> ELSE <<[resolves |-> TRUE, addresses |-> <<"a1">>]>>)
    /\ called_cancelled = FALSE

\* udp_multicast_burst within next_resolve_wave
BurstEmit(t) ==
    \E failed \in SUBSET Stacks :
        /\ WaveEmitStep(t, failed)
        /\ burst_log' = StartBurst("multicast", failed).log
        /\ burst_failed' = failed
        /\ UNCHANGED <<storeHist, callHist, ctorVars, called_cancelled>>

\* a handler of the I/O context; udp_unicast_burst is one of them
BurstHandler(t) ==
    \E failed \in SUBSET Stacks :
        /\ RunHandlerStep(t, failed)
        /\ IF Head(queue) = "unicast_ok"
           THEN /\ burst_log' = StartBurst("unicast", failed).log
                /\ burst_failed' = failed
           ELSE UNCHANGED burstHist
        /\ UNCHANGED <<storeHist, callHist, ctorVars, called_cancelled>>

NextBurst ==
    \/ \E q \in Queries, m \in 0..MaxMinimum, to \in FiniteOrForever(MaxTimeout),
          mt \in 0..MaxMinTime : ResolveOneshot(q, m, to, mt)
    \/ OneshotClear
    \/ OneshotCheck
    \/ OneshotCollect
    \/ Cancel
    \/ WaveEnter("main")
    \/ BurstEmit("main")
    \/ BurstHandler("main")
    \/ \E n \in TimerNames : TimerDispatch("main", n)
    \/ \E a \in attempts : AttemptFinish("main", a)
    \/ RunReturn("main")
    \/ Tick

SpecBurst == InitBurst /\ [][NextBurst]_vars

\* what a burst of the given kind has done in this step
BurstOutcome(kind) ==
    /\ burst_failed' \subseteq Stacks
    /\ Burst(kind, Stacks \ burst_failed') \subseteq attempts'
    /\ attempts' \subseteq attempts \cup Burst(kind, Stacks \ burst_failed')
    /\ Len(burst_log') <= 1
    /\ (burst_log' # <<>>) <=> (Stacks # {} /\ burst_failed' = Stacks)
    /\ \A i \in 1..Len(burst_log') : burst_log'[i] = LogLevel(kind)

\* C21: in a multicast or unicast burst every allowed stack whose attempt
\* can be started gets its attempt, whichever other stacks fail; the burst
\* returns normally, so the wave arms wave_timer (and unicast_timer when
\* there are unicast endpoints) and the handler loop goes on; the burst
\* logs at most one message, ERROR for multicast and WARNING for unicast,
\* and it logs it exactly when there are allowed stacks and all of them
\* failed.
C21_BurstToleratesFailures ==
    [][/\ \A t \in Threads : Emitting(t) =>
             /\ BurstOutcome("multicast")
             /\ timers'["wave"].armed
             /\ (ucast_endpoints_ # 0) => timers'["unicast"].armed
             /\ pc'[t] = AfterWave(pc[t])
       /\ UnicastHandlerRuns =>
             /\ BurstOutcome("unicast")
             /\ pc' = pc
             /\ timers' = timers
      ]_vars
\* a burst on two allowed stacks failed on v6, started its attempt on v4 and
\* logged nothing
C21_Witness ==
    /\ udp_protocols_ = <<"v6", "v4">>
    /\ burst_failed = {"v6"}
    /\ burst_log = <<>>
    /\ \E a \in attempts : a.stack = "v4" /\ ~a.cancelled
    /\ \A a \in attempts : a.stack # "v6"
    /\ timers["wave"].armed


(* --------------------------- the constructor --------------------------- *)
(* The constructor builds the unicast endpoint list from base_port,        *)
(* port_range and the known peers (lines 31-46).  Base ports are taken     *)
(* from both ends of the 16-bit range, with every port_range up to         *)
(* MaxPortRange; a peer fails to resolve or resolves to one or two         *)
(* addresses.                                                              *)
BasePorts == {0, MidBasePort} \cup ((PortModulus - MaxPortRange - 1)..(PortModulus - 1))
PeerOutcomes ==
    {[resolves |-> FALSE, addresses |-> <<>>],
     [resolves |-> TRUE, addresses |-> <<"a1">>],
     [resolves |-> TRUE, addresses |-> <<"a1", "a2">>]}
Addresses == {"a1", "a2"}

InitCtor ==
    /\ cancelled_ = FALSE
    /\ expired_ = FALSE
    /\ query_ = ""
    /\ minimum_ = 0
    /\ wait_until_ = 0
    /\ forget_after_ = FOREVER
    /\ fast_mode_ = TRUE
    /\ results_ = NoStore
    /\ results_mut_ = "free"
    /\ ucast_endpoints_ = 0
    /\ udp_protocols_ = <<"v4">>
    /\ background_io_ = FALSE
    /\ io_stopped = FALSE
    /\ queue = <<>>
    /\ timers = [n \in TimerNames |-> Unarmed]
    /\ attempts = {}
    /\ pc = [t \in Threads |-> CASE t = "main" -> "idle"
                                 [] t = "worker" -> "off"
                                 [] t = "other" -> "idle"]
    /\ args = NoArgs
    /\ ret = [status |-> "none", list |-> <<>>]
    /\ output = <<>>
    /\ max_results_arg = 0
    /\ calls = 0
    /\ cancels = 0
    /\ returned = {}
    /\ last_obs = [k \in Keys |-> -1]
    /\ store_before = NoStore
    /\ timeout_at = FOREVER
    /\ early_reply = FALSE
    /\ burst_log = <<>>
    /\ burst_failed = {}
    /\ base_port_ \in BasePorts
    /\ port_range_ \in 0..MaxPortRange
    /\ known_peers_ \in UNION {[1..n -> PeerOutcomes] : n \in 0..MaxPeers}
    /\ ucast_list = <<>>
    /\ ctor_k = 1
    /\ called_cancelled = FALSE

\* one turn of the loop over the known peers (lines 36-46)
CtorPeer ==
    /\ ctor_k >= 1
    /\ ctor_k <= Len(known_peers_)
    /\ ucast_list' = ucast_list \o PeerEndpoints(known_peers_[ctor_k], base_port_, port_range_)
    /\ ctor_k' = ctor_k + 1
    /\ UNCHANGED <<base_port_, port_range_, known_peers_>>
    /\ UNCHANGED <<resolverVars, ioVars, storeVars, threadVars, storeHist, callHist, burstHist,
                   called_cancelled>>

\* the loop has ended and the constructor returns
CtorDone ==
    /\ ctor_k = Len(known_peers_) + 1
    /\ ctor_k' = 0
    /\ ucast_endpoints_' = Len(ucast_list)
    /\ UNCHANGED <<base_port_, port_range_, known_peers_, ucast_list>>
    /\ UNCHANGED <<cancelled_, expired_, query_, minimum_, wait_until_, forget_after_,
                   fast_mode_, udp_protocols_, background_io_>>
    /\ UNCHANGED <<ioVars, storeVars, threadVars, storeHist, callHist, burstHist, called_cancelled>>

NextCtor ==
    \/ CtorPeer
    \/ CtorDone

SpecCtor == InitCtor /\ [][NextCtor]_vars

\* how many times the known peers resolve to the address
Resolutions(address) ==
    Cardinality({<<k, j>> \in (1..Len(known_peers_)) \X (1..2) :
                    /\ known_peers_[k].resolves
                    /\ j <= Len(known_peers_[k].addresses)
                    /\ known_peers_[k].addresses[j] = address})
\* how many endpoints of the list are (address, port)
Stored(address, port) ==
    Cardinality({i \in 1..Len(ucast_list) :
                    ucast_list[i] = [address |-> address, port |-> port]})

\* C22: after construction the unicast endpoint list holds, for every
\* resolved address of every known peer that resolves, exactly one endpoint
\* per port p with base_port <= p < base_port + port_range and nothing else:
\* every stored port lies in that range, also when base_port + port_range
\* exceeds 65535; a peer that does not resolve contributes nothing.
C22_EndpointsCoverPortRange ==
    ctor_k = 0 =>
        /\ \A i \in 1..Len(ucast_list) :
              /\ base_port_ <= ucast_list[i].port
              /\ ucast_list[i].port < base_port_ + port_range_
        /\ \A a \in Addresses :
              \A p \in base_port_..(base_port_ + port_range_ - 1) :
                 Stored(a, p) = Resolutions(a)
        /\ Len(ucast_list) = port_range_ * (Resolutions("a1") + Resolutions("a2"))


(* ---------------- attempts after cancel_ongoing_resolve ---------------- *)
\* this step is a burst that starts a resolve attempt: the else branch of
\* next_resolve_wave or udp_unicast_burst adds an attempt
AttemptStarted ==
    /\ (\E t \in Threads : Emitting(t)) \/ UnicastHandlerRuns
    /\ \E a \in attempts' \ attempts : ~a.cancelled

\* C23: once cancel_ongoing_resolve has been invoked in a resolve (expired
\* is set), no new resolve attempt is created: neither a multicast burst nor
\* the unicast burst of a unicast_timer that the wave had armed, however the
\* posted cancellation of unicast_timer is ordered with the expiry of the
\* timer and the dispatch of its handler.
C23_NoAttemptAfterCancelOngoing ==
    [][expired_ => ~AttemptStarted]_vars


(* ---------------------- a resolver that is used again ------------------ *)
(* Up to MaxReuseCalls resolve calls on one resolver, one after the other, *)
(* with cancel() from the second thread at any point.  The history         *)
(* variable called_cancelled records whether cancelled was set when the    *)
(* last call began.                                                        *)
ReuseOneshot(minimum, timeout) ==
    /\ calls < MaxReuseCalls
    /\ calls' = calls + 1
    /\ ResolveOneshotStep("session_id='X'", minimum, timeout, 0)
    /\ called_cancelled' = cancelled_
    /\ UNCHANGED <<storeHist, callHist, burstHist, ctorVars>>

ReuseContinuous(forget_after) ==
    /\ calls < MaxReuseCalls
    /\ calls' = calls + 1
    /\ ResolveContinuousStep("session_id='X'", forget_after)
    /\ called_cancelled' = cancelled_
    /\ UNCHANGED <<storeHist, callHist, burstHist, ctorVars>>

NextReuse ==
    \/ \E m \in 0..1, to \in FiniteOrForever(MaxTimeout) : ReuseOneshot(m, to)
    \/ ReuseContinuous(FOREVER)
    \/ OneshotClear
    \/ OneshotCheck
    \/ OneshotCollect
    \/ ContinuousClear
    \/ ContinuousSpawn
    \/ Cancel
    \/ \E t \in {"main", "worker"} : IoNext(t)
    \/ Tick

SpecReuse == Init /\ [][NextReuse]_vars

\* the main thread is inside a resolve call, or its worker is running
InCall ==
    \/ pc["main"] \notin {"idle", "dtor_join", "destroyed"}
    \/ pc["worker"] \notin {"off", "done"}
\* the main thread has cleared the store and is about to start the first wave
CallSetUp == pc["main"] \in {"os_wave", "rc_wave"}

\* C24: cancelled is sticky and expired is per run.  No step clears
\* cancelled; a resolve_oneshot that begins after cancel() returns the empty
\* list, and no resolve attempt is started during a resolve_oneshot or
\* resolve_continuous that begins after cancel().  A resolver that was not
\* cancelled can be used again after a resolve_oneshot has ended: the next
\* call starts with expired clear and an empty result store, and its first
\* wave is emitted.
C24_CancelledStickyExpiredPerRun ==
    /\ [][/\ cancelled_ => cancelled_'
          /\ (called_cancelled /\ OneshotReturns) => ret' = [status |-> "ok", list |-> <<>>]
          /\ (called_cancelled /\ InCall) => ~AttemptStarted
          /\ (Entering("main") /\ CallSetUp /\ ~cancelled_) => ElseBranch("main")
         ]_vars
    /\ []((CallSetUp /\ ~cancelled_) => (~expired_ /\ results_ = NoStore))

====
